---- MODULE Spec2Model ----
(***************************************************************************)
(* A model of the websocket-client crate (src/lib.rs): one `Socket` handle *)
(* with two mutually exclusive implementations selected by the build       *)
(* target.                                                                 *)
(*                                                                         *)
(*   wasm32  the handle wraps a JavaScript WebSocket; four callbacks       *)
(*           (onopen, onerror, onclose, onmessage) mutate the shared       *)
(*           SocketState cells; send/send_binary either hand the message   *)
(*           to the socket or push it on `queued`; recv_all drains         *)
(*           `received`.  Rust and the callbacks share one thread, so each *)
(*           call and each callback is one atomic step.                    *)
(*   native  the handle wraps a non-blocking `websocket` client; recv_all  *)
(*           is a read loop.  The network is concurrent with the loop, so  *)
(*           the loop is modelled one read and one match per step.         *)
(*                                                                         *)
(* Payloads are sequences of numbers: a string is the sequence of its      *)
(* character codes, a byte vector the sequence of its bytes.               *)
(***************************************************************************)
EXTENDS Integers, Sequences, FiniteSets, TLC

\* ------------------------------------------------------------------ bounds
MaxSends == 2
MaxArrivals == 2
MaxRecvs == 2

\* --------------------------------------------------------------- constants
\* WebSocket.readyState values tested by send / send_binary.
OPEN == 1
CLOSING == 2
CLOSED == 3
\* The readyState of a WebSocket that has just been constructed.
CONNECTING == 0

VARIABLES
    target_arch,    \* "wasm32" or "native": the cfg that selects the impl
    \* ---- wasm32: SocketState and the JavaScript socket
    queued,         \* SocketState.queued
    received,       \* SocketState.received
    disconnected,   \* SocketState.disconnected
    error,          \* SocketState.error
    readyState,     \* socket.readyState
    socket_sent,    \* the values passed to socket.send, in order
    close_calls,    \* number of times the handle has closed its transport
    alive,          \* the handle has not been dropped (either backend)
    \* ---- native: the client and the recv_all loop
    wire,           \* frames the transport has ready to be read
    outbox,         \* frames written to the transport by send_message
    pc,             \* "idle" | "loop" | "match" | "panicked"
    res,            \* recv_all's local `res`
    cur,            \* the value recv_message() returned, being matched
    \* ---- history (observations only; no action's guard reads these)
    last,           \* the last API call that ended: op, status, val
    nrecv,          \* number of recv_all calls that ended
    sendLog,        \* every wasm32 send/send_binary call: msg, readyState
    flushes,        \* the batches onopen handed to socket.send
    arrivedLog,     \* every frame that arrived from the transport
    unread,         \* frames arrived since the last successful recv_all
    returnedLog,    \* concatenation of all successful recv_all results
    quiet,          \* no arrival / terminal event since a successful recv_all
    terminalSeen,   \* onerror or onclose has run
    readLog,        \* frames read by the current / last native recv_all
    allRead,        \* frames read by all native recv_all calls
    pongLog,        \* payload and outcome of every pong send_message call
    failedBefore    \* a native recv_all has returned Err

wasmVars == <<queued, received, disconnected, error, readyState, socket_sent,
              close_calls, alive>>
nativeVars == <<wire, outbox, pc, res, cur>>
histVars == <<last, nrecv, sendLog, flushes, arrivedLog, unread, returnedLog,
              quiet, terminalSeen, readLog, allRead, pongLog, failedBefore>>
vars == <<target_arch, wasmVars, nativeVars, histVars>>

\* ------------------------------------------------------------ message model
\* enum SocketMessage { Text(String), Binary(Vec<u8>) }
Text(data) == [tag |-> "Text", data |-> data]
Binary(data) == [tag |-> "Binary", data |-> data]

\* "hi" and the bytes [1,2,3]; the bytes [104,105] spell "hi", so a text and
\* a binary message with one payload differ in the tag alone.
Strings == {<<104, 105>>}
ByteVecs == {<<1, 2, 3>>, <<104, 105>>}
TextMsgs == {Text(s) : s \in Strings}
BinaryMsgs == {Binary(b) : b \in ByteVecs}

\* JavaScript values that cross the stdweb bridge.
JsString(data) == [kind |-> "string", data |-> data]
JsArrayBuffer(data) == [kind |-> "ArrayBuffer", data |-> data]
JsUint8Array(data) == [kind |-> "Uint8Array", data |-> data]

\* web::TypedArray::from(&data[..])
TypedArray_from(data) == JsUint8Array(data)
\* typed_array.buffer()
buffer(typed_array) == JsArrayBuffer(typed_array.data)
\* new Uint8Array(m.data)
new_Uint8Array(array_buffer) == JsUint8Array(array_buffer.data)
\* msg.to_vec()
to_vec(typed_array) == typed_array.data

Map(f(_), s) == [i \in 1..Len(s) |-> f(s[i])]

NoCall == [op |-> "none", status |-> "none", val |-> <<>>]
Ok(op, val) == [op |-> op, status |-> "Ok", val |-> val]
Err(op) == [op |-> op, status |-> "Err", val |-> <<>>]
Panic(op) == [op |-> op, status |-> "Panic", val |-> <<>>]

\* ===================================================================== wasm32
\* Vec::push
push(v, x) == Append(v, x)

\* The map closure of get_queued: one queued SocketMessage as a stdweb Value.
queued_value(x) ==
    IF x.tag = "Text"
    THEN JsString(x.data)
    ELSE buffer(TypedArray_from(x.data))

\* A drain that returns the items but leaves them in the Vec.
drain_leaves_items(v) == [items |-> v, rest |-> v]

\* Vec::drain(..): the drained items in order, and what is left in the Vec.
drain(v) == [items |-> v, rest |-> <<>>]

\* A get_queued that hands the queue over newest first.
get_queued_reversed(q) ==
    [array |-> [i \in 1..Len(q) |-> queued_value(q[Len(q) + 1 - i])],
     queued |-> <<>>]

\* A get_queued that reads the queue without draining it.
get_queued_without_drain(q) ==
    [array |-> Map(queued_value, q), queued |-> q]

\* get_queued: drains `queued` and returns the drained messages, converted,
\* as a JavaScript array.
get_queued(q) ==
    [array |-> Map(queued_value, drain(q).items), queued |-> drain(q).rest]

\* An add_received_text that overwrites the buffer with the new message.
add_received_text_overwrites(rcv, msg) == <<Text(msg)>>

\* An add_received_binary that tags the bytes as text.
add_received_binary_as_text(rcv, msg) == push(rcv, Text(to_vec(msg)))

\* add_received_text / add_received_binary: the new content of `received`.
add_received_text(rcv, msg) == push(rcv, Text(msg))
add_received_binary(rcv, msg) == push(rcv, Binary(to_vec(msg)))

\* set_disconnected / set_error: the new content of the flag cell.
set_disconnected(old) == TRUE
set_error(old) == TRUE

\* A ready test that is always true.
ready_always(rs) == TRUE

\* A ready test that takes every socket past CONNECTING for sendable.
ready_unless_connecting(rs) == rs # CONNECTING

\* A ready test against the wrong readyState constant.
ready_when_connecting(rs) == rs = CONNECTING

\* `return socket.readyState === 1;` in send and send_binary.
ready(rs) == rs = OPEN

\* A recv_all test that forgets the error flag.
recv_all_failed_ignores_error(d, e) == d

\* `if *disconnected || *error` in recv_all.
recv_all_failed(d, e) == d \/ e

\* What onmessage appends to `received` for the event data m.
onmessage_received(rcv, m) ==
    IF m.kind = "ArrayBuffer"
    THEN add_received_binary(rcv, new_Uint8Array(m))
    ELSE add_received_text(rcv, m.data)

\* The data of the message events the host can deliver: strings for text
\* frames and (binaryType = "arraybuffer") ArrayBuffers for binary frames.
JsData ==
    {JsString(s) : s \in Strings} \cup {JsArrayBuffer(b) : b \in ByteVecs}

LogSend(msg) ==
    sendLog' = Append(sendLog, [msg |-> msg, readyState |-> readyState,
                                flushed |-> flushes # <<>>])

\* An onopen handler that does not send what is queued.
onopen_without_flush ==
    /\ target_arch = "wasm32"
    /\ readyState = CONNECTING
    /\ readyState' = OPEN
    /\ flushes' = Append(flushes, <<>>)
    /\ UNCHANGED <<target_arch, queued, socket_sent, received, disconnected,
                   error, close_calls, alive, nativeVars, last, nrecv,
                   sendLog, arrivedLog, unread, returnedLog, quiet,
                   terminalSeen, readLog, allRead, pongLog, failedBefore>>

\* socket.onopen: the host moves the socket to OPEN and fires the open event
\* once; the handler sends every queued value in index order and drops the
\* get_queued closure.
onopen ==
    /\ target_arch = "wasm32"
    /\ readyState = CONNECTING
    /\ readyState' = OPEN
    /\ LET g == get_queued(queued)
       IN /\ queued' = g.queued
          /\ socket_sent' = socket_sent \o g.array
          /\ flushes' = Append(flushes, g.array)
    /\ UNCHANGED <<target_arch, received, disconnected, error, close_calls,
                   alive, nativeVars, last, nrecv, sendLog, arrivedLog,
                   unread, returnedLog, quiet, terminalSeen, readLog, allRead,
                   pongLog, failedBefore>>

\* socket.onerror: the error event; the handler calls set_error.  The model
\* does not tie the event to a readyState change, so that messages may still
\* arrive after it.
onerror ==
    /\ target_arch = "wasm32"
    /\ readyState # CLOSED
    /\ error' = set_error(error)
    /\ terminalSeen' = TRUE
    /\ quiet' = FALSE
    /\ UNCHANGED <<target_arch, queued, received, disconnected, readyState,
                   socket_sent, close_calls, alive, nativeVars, last, nrecv,
                   sendLog, flushes, arrivedLog, unread, returnedLog, readLog,
                   allRead, pongLog, failedBefore>>

\* socket.onclose: the host moves the socket to CLOSED and fires the close
\* event; the handler calls set_disconnected.
onclose ==
    /\ target_arch = "wasm32"
    /\ readyState # CLOSED
    /\ readyState' = CLOSED
    /\ disconnected' = set_disconnected(disconnected)
    /\ terminalSeen' = TRUE
    /\ quiet' = FALSE
    /\ UNCHANGED <<target_arch, queued, received, error, socket_sent,
                   close_calls, alive, nativeVars, last, nrecv, sendLog,
                   flushes, arrivedLog, unread, returnedLog, readLog, allRead,
                   pongLog, failedBefore>>

\* socket.onmessage: a message event, delivered while the socket is OPEN.
onmessage ==
    /\ target_arch = "wasm32"
    /\ readyState = OPEN
    /\ Len(arrivedLog) < MaxArrivals
    /\ \E m \in JsData :
          /\ received' = onmessage_received(received, m)
          /\ arrivedLog' = Append(arrivedLog, m)
          /\ unread' = Append(unread, m)
    /\ quiet' = FALSE
    /\ UNCHANGED <<target_arch, queued, disconnected, error, readyState,
                   socket_sent, close_calls, alive, nativeVars, last, nrecv,
                   sendLog, flushes, returnedLog, terminalSeen, readLog,
                   allRead, pongLog, failedBefore>>

\* A send that returns an error once the socket is closing or closed.
send_fails_when_closed ==
    /\ target_arch = "wasm32"
    /\ alive
    /\ Len(sendLog) < MaxSends
    /\ \E msg \in TextMsgs :
          /\ IF ready(readyState)
             THEN /\ socket_sent' = Append(socket_sent, JsString(msg.data))
                  /\ queued' = queued
             ELSE /\ queued' = IF readyState = CONNECTING
                               THEN push(queued, Text(msg.data))
                               ELSE queued
                  /\ socket_sent' = socket_sent
          /\ LogSend(msg)
    /\ last' = IF readyState \in {CLOSING, CLOSED}
               THEN Err("send")
               ELSE Ok("send", <<>>)
    /\ UNCHANGED <<target_arch, received, disconnected, error, readyState,
                   close_calls, alive, nativeVars, nrecv, flushes, arrivedLog,
                   unread, returnedLog, quiet, terminalSeen, readLog, allRead,
                   pongLog, failedBefore>>

\* Socket::send (wasm32)
send ==
    /\ target_arch = "wasm32"
    /\ alive
    /\ Len(sendLog) < MaxSends
    /\ \E msg \in TextMsgs :
          /\ IF ready(readyState)
             THEN /\ socket_sent' = Append(socket_sent, JsString(msg.data))
                  /\ queued' = queued
             ELSE /\ queued' = push(queued, Text(msg.data))
                  /\ socket_sent' = socket_sent
          /\ LogSend(msg)
    /\ last' = Ok("send", <<>>)
    /\ UNCHANGED <<target_arch, received, disconnected, error, readyState,
                   close_calls, alive, nativeVars, nrecv, flushes, arrivedLog,
                   unread, returnedLog, quiet, terminalSeen, readLog, allRead,
                   pongLog, failedBefore>>

\* Socket::send_binary (wasm32)
send_binary ==
    /\ target_arch = "wasm32"
    /\ alive
    /\ Len(sendLog) < MaxSends
    /\ \E msg \in BinaryMsgs :
          /\ IF ready(readyState)
             THEN /\ socket_sent' =
                        Append(socket_sent, buffer(TypedArray_from(msg.data)))
                  /\ queued' = queued
             ELSE /\ queued' = push(queued, Binary(msg.data))
                  /\ socket_sent' = socket_sent
          /\ LogSend(msg)
    /\ last' = Ok("send_binary", <<>>)
    /\ UNCHANGED <<target_arch, received, disconnected, error, readyState,
                   close_calls, alive, nativeVars, nrecv, flushes, arrivedLog,
                   unread, returnedLog, quiet, terminalSeen, readLog, allRead,
                   pongLog, failedBefore>>

\* Socket::recv_all (wasm32)
recv_all ==
    /\ target_arch = "wasm32"
    /\ alive
    /\ nrecv < MaxRecvs
    /\ nrecv' = nrecv + 1
    /\ IF recv_all_failed(disconnected, error)
       THEN /\ last' = Err("recv_all")
            /\ UNCHANGED <<received, unread, returnedLog, quiet>>
       ELSE /\ last' = Ok("recv_all", drain(received).items)
            /\ received' = drain(received).rest
            /\ unread' = <<>>
            /\ returnedLog' = returnedLog \o drain(received).items
            /\ quiet' = TRUE
    /\ UNCHANGED <<target_arch, queued, disconnected, error, readyState,
                   socket_sent, close_calls, alive, nativeVars, sendLog,
                   flushes, arrivedLog, terminalSeen, readLog, allRead,
                   pongLog, failedBefore>>

\* The peer starts the closing handshake: the host moves an OPEN socket to
\* CLOSING (readyState == 2) and fires no event until the close completes.
host_closing ==
    /\ target_arch = "wasm32"
    /\ readyState = OPEN
    /\ readyState' = CLOSING
    /\ UNCHANGED <<target_arch, queued, received, disconnected, error,
                   socket_sent, close_calls, alive, nativeVars, histVars>>

\* A Drop that leaves an already closed socket alone.
drop_skips_closed ==
    /\ target_arch = "wasm32"
    /\ alive
    /\ alive' = FALSE
    /\ close_calls' = IF readyState = CLOSED
                      THEN close_calls
                      ELSE close_calls + 1
    /\ readyState' = IF readyState \in {CONNECTING, OPEN}
                     THEN CLOSING
                     ELSE readyState
    /\ UNCHANGED <<target_arch, queued, received, disconnected, error,
                   socket_sent, nativeVars, histVars>>

\* impl Drop for Socket (wasm32): socket.close().  close() moves a socket
\* that is CONNECTING or OPEN to CLOSING and does nothing otherwise; the
\* callbacks stay registered.
drop ==
    /\ target_arch = "wasm32"
    /\ alive
    /\ alive' = FALSE
    /\ close_calls' = close_calls + 1
    /\ readyState' = IF readyState \in {CONNECTING, OPEN}
                     THEN CLOSING
                     ELSE readyState
    /\ UNCHANGED <<target_arch, queued, received, disconnected, error,
                   socket_sent, nativeVars, histVars>>

\* ===================================================================== native
\* message::OwnedMessage, as read from and written to the transport.
Frame(kind, data) == [kind |-> kind, data |-> data]

\* What the network can make ready for recv_message: the five OwnedMessage
\* variants, and "IoError" for a read that fails with an error other than
\* WouldBlock at that point of the stream.
NetFrames ==
    {Frame("Text", s) : s \in Strings} \cup
    {Frame("Binary", <<1, 2, 3>>), Frame("Ping", <<9>>), Frame("Pong", <<9>>),
     Frame("Close", <<>>), Frame("IoError", <<>>)}

\* self.client.recv_message() on the non-blocking stream: WouldBlock when
\* nothing is ready, otherwise the next frame or the read error.
recv_message(w) ==
    IF w = <<>>
    THEN [result |-> "Err", kind |-> "WouldBlock", data |-> <<>>]
    ELSE IF Head(w).kind = "IoError"
         THEN [result |-> "Err", kind |-> "Other", data |-> <<>>]
         ELSE [result |-> "Ok", kind |-> Head(w).kind, data |-> Head(w).data]

NoMessage == [result |-> "none", kind |-> "none", data |-> <<>>]

\* A pong that does not echo the ping's payload.
pong_with_empty_payload(data) == Frame("Pong", <<>>)

\* message::OwnedMessage::Pong(data) for a Ping(data).
pong_for(data) == Frame("Pong", data)

\* The network makes one more frame (or read error) ready.
native_arrive ==
    /\ target_arch = "native"
    /\ alive
    /\ Len(arrivedLog) < MaxArrivals
    /\ \E f \in NetFrames :
          /\ wire' = Append(wire, f)
          /\ arrivedLog' = Append(arrivedLog, f)
    /\ quiet' = FALSE
    /\ UNCHANGED <<target_arch, wasmVars, outbox, pc, res, cur, last, nrecv,
                   sendLog, flushes, unread, returnedLog, terminalSeen,
                   readLog, allRead, pongLog, failedBefore>>

\* The text and binary frames send / send_binary have written.
DataFrames(out) == SelectSeq(out, LAMBDA f : f.kind \in {"Text", "Binary"})

\* Socket::send (native): send_message(Text(data))?, which the transport
\* accepts or refuses.
native_send ==
    /\ target_arch = "native"
    /\ alive
    /\ pc = "idle"
    /\ Len(DataFrames(outbox)) < MaxSends
    /\ \E msg \in TextMsgs, accepted \in BOOLEAN :
          IF accepted
          THEN /\ outbox' = Append(outbox, Frame("Text", msg.data))
               /\ last' = Ok("send", <<>>)
          ELSE /\ outbox' = outbox
               /\ last' = Err("send")
    /\ UNCHANGED <<target_arch, wasmVars, wire, pc, res, cur, nrecv, sendLog,
                   flushes, arrivedLog, unread, returnedLog, quiet,
                   terminalSeen, readLog, allRead, pongLog, failedBefore>>

\* Socket::send_binary (native)
native_send_binary ==
    /\ target_arch = "native"
    /\ alive
    /\ pc = "idle"
    /\ Len(DataFrames(outbox)) < MaxSends
    /\ \E msg \in {Binary(<<1, 2, 3>>)}, accepted \in BOOLEAN :
          IF accepted
          THEN /\ outbox' = Append(outbox, Frame("Binary", msg.data))
               /\ last' = Ok("send_binary", <<>>)
          ELSE /\ outbox' = outbox
               /\ last' = Err("send_binary")
    /\ UNCHANGED <<target_arch, wasmVars, wire, pc, res, cur, nrecv, sendLog,
                   flushes, arrivedLog, unread, returnedLog, quiet,
                   terminalSeen, readLog, allRead, pongLog, failedBefore>>

\* A recv_all whose `res` outlives the call (a field instead of a local).
native_recv_all_keeps_res ==
    /\ target_arch = "native"
    /\ alive
    /\ pc = "idle"
    /\ nrecv < MaxRecvs
    /\ res' = res
    /\ readLog' = <<>>
    /\ pc' = "loop"
    /\ UNCHANGED <<target_arch, wasmVars, wire, outbox, cur, last, nrecv,
                   sendLog, flushes, arrivedLog, unread, returnedLog, quiet,
                   terminalSeen, allRead, pongLog, failedBefore>>

\* Socket::recv_all (native), entry: `let mut res = vec![];`
native_recv_all ==
    /\ target_arch = "native"
    /\ alive
    /\ pc = "idle"
    /\ nrecv < MaxRecvs
    /\ res' = <<>>
    /\ readLog' = <<>>
    /\ pc' = "loop"
    /\ UNCHANGED <<target_arch, wasmVars, wire, outbox, cur, last, nrecv,
                   sendLog, flushes, arrivedLog, unread, returnedLog, quiet,
                   terminalSeen, allRead, pongLog, failedBefore>>

\* The native Socket has no Drop impl: dropping it drops `client`, which
\* closes the stream, whether the handle is idle or a panic is unwinding.
native_drop ==
    /\ target_arch = "native"
    /\ alive
    /\ pc \in {"idle", "panicked"}
    /\ alive' = FALSE
    /\ close_calls' = close_calls + 1
    /\ UNCHANGED <<target_arch, queued, received, disconnected, error,
                   readyState, socket_sent, nativeVars, histVars>>

\* A match that has no WouldBlock arm: every Err is returned as an error.
never_would_block(m) == FALSE

\* `Err(IoError(ref err)) if err.kind() == ErrorKind::WouldBlock`
is_would_block(m) == m.result = "Err" /\ m.kind = "WouldBlock"

\* `match self.client.recv_message()`: one read at the head of the loop that
\* returns a frame or an error other than WouldBlock.
native_read ==
    /\ target_arch = "native"
    /\ pc = "loop"
    /\ ~is_would_block(recv_message(wire))
    /\ cur' = recv_message(wire)
    /\ IF wire = <<>>
       THEN UNCHANGED <<wire, readLog, allRead>>
       ELSE /\ wire' = Tail(wire)
            /\ readLog' = Append(readLog, Head(wire))
            /\ allRead' = Append(allRead, Head(wire))
    /\ pc' = "match"
    /\ UNCHANGED <<target_arch, wasmVars, outbox, res, last, nrecv, sendLog,
                   flushes, arrivedLog, unread, returnedLog, quiet,
                   terminalSeen, pongLog, failedBefore>>

\* The read that reports WouldBlock: `break`, then `Ok(res)`.  Nothing
\* touches the transport between that read and the return, so they are one
\* step.
err_would_block ==
    /\ target_arch = "native"
    /\ pc = "loop"
    /\ is_would_block(recv_message(wire))
    /\ pc' = "idle"
    /\ last' = Ok("recv_all", res)
    /\ nrecv' = nrecv + 1
    /\ returnedLog' = returnedLog \o res
    /\ quiet' = TRUE
    /\ UNCHANGED <<target_arch, wasmVars, wire, outbox, res, cur, sendLog,
                   flushes, arrivedLog, unread, terminalSeen, readLog,
                   allRead, pongLog, failedBefore>>

\* What every arm that stays in the loop or leaves recv_all keeps unchanged.
ArmUnchanged ==
    UNCHANGED <<target_arch, wasmVars, wire, cur, sendLog, flushes,
                arrivedLog, unread, terminalSeen, readLog, allRead>>

\* `return Err(..)` of recv_all.
ReturnErr ==
    /\ pc' = "idle"
    /\ last' = Err("recv_all")
    /\ nrecv' = nrecv + 1
    /\ failedBefore' = TRUE
    /\ UNCHANGED <<res, outbox, returnedLog, quiet, pongLog>>

\* A panic unwinds out of recv_all: the call ends without a value.
Abort ==
    /\ pc' = "panicked"
    /\ last' = Panic("recv_all")
    /\ nrecv' = nrecv + 1
    /\ UNCHANGED <<res, returnedLog, quiet, failedBefore>>

\* OwnedMessage::Text(msg) => res.push(SocketMessage::Text(msg))
match_text ==
    /\ pc = "match" /\ cur.result = "Ok" /\ cur.kind = "Text"
    /\ res' = push(res, Text(cur.data))
    /\ pc' = "loop"
    /\ UNCHANGED <<outbox, last, nrecv, returnedLog, quiet, pongLog,
                   failedBefore>>
    /\ ArmUnchanged

\* OwnedMessage::Binary(msg) => res.push(SocketMessage::Binary(msg))
match_binary ==
    /\ pc = "match" /\ cur.result = "Ok" /\ cur.kind = "Binary"
    /\ res' = push(res, Binary(cur.data))
    /\ pc' = "loop"
    /\ UNCHANGED <<outbox, last, nrecv, returnedLog, quiet, pongLog,
                   failedBefore>>
    /\ ArmUnchanged

\* OwnedMessage::Ping(data) => send_message(&Pong(data)).unwrap(): the pong
\* is written and the loop goes on.
match_ping ==
    /\ pc = "match" /\ cur.result = "Ok" /\ cur.kind = "Ping"
    /\ outbox' = Append(outbox, pong_for(cur.data))
    /\ pongLog' = Append(pongLog, [data |-> pong_for(cur.data).data,
                                   sent |-> TRUE])
    /\ pc' = "loop"
    /\ UNCHANGED <<res, last, nrecv, returnedLog, quiet, failedBefore>>
    /\ ArmUnchanged

\* A Ping arm that propagates the send error with `?` instead of unwrap.
match_ping_returns_err ==
    /\ pc = "match" /\ cur.result = "Ok" /\ cur.kind = "Ping"
    /\ pongLog' = Append(pongLog, [data |-> pong_for(cur.data).data,
                                   sent |-> FALSE])
    /\ pc' = "idle"
    /\ last' = Err("recv_all")
    /\ nrecv' = nrecv + 1
    /\ failedBefore' = TRUE
    /\ UNCHANGED <<res, outbox, returnedLog, quiet>>
    /\ ArmUnchanged

\* The same arm when send_message returns Err (the non-blocking stream would
\* block, or the connection is broken): unwrap panics.
match_ping_unwrap_panics ==
    /\ pc = "match" /\ cur.result = "Ok" /\ cur.kind = "Ping"
    /\ outbox' = outbox
    /\ pongLog' = Append(pongLog, [data |-> pong_for(cur.data).data,
                                   sent |-> FALSE])
    /\ Abort
    /\ ArmUnchanged

\* OwnedMessage::Close(_) => return Err(..)
match_close ==
    /\ pc = "match" /\ cur.result = "Ok" /\ cur.kind = "Close"
    /\ ReturnErr
    /\ ArmUnchanged

\* other => panic!("Unsupported message type: {:?}", other)
match_other ==
    /\ pc = "match" /\ cur.result = "Ok"
    /\ cur.kind \notin {"Text", "Binary", "Ping", "Close"}
    /\ UNCHANGED <<outbox, pongLog>>
    /\ Abort
    /\ ArmUnchanged

\* Err(_) => return Err(..)
err_other ==
    /\ pc = "match" /\ cur.result = "Err"
    /\ ReturnErr
    /\ ArmUnchanged

\* ============================================================ specification
Init ==
    /\ target_arch \in {"wasm32", "native"}
    /\ queued = <<>>
    /\ received = <<>>
    /\ disconnected = FALSE
    /\ error = FALSE
    /\ readyState = CONNECTING
    /\ socket_sent = <<>>
    /\ close_calls = 0
    /\ alive = TRUE
    /\ wire = <<>>
    /\ outbox = <<>>
    /\ pc = "idle"
    /\ res = <<>>
    /\ cur = NoMessage
    /\ last = NoCall
    /\ nrecv = 0
    /\ sendLog = <<>>
    /\ flushes = <<>>
    /\ arrivedLog = <<>>
    /\ unread = <<>>
    /\ returnedLog = <<>>
    /\ quiet = FALSE
    /\ terminalSeen = FALSE
    /\ readLog = <<>>
    /\ allRead = <<>>
    /\ pongLog = <<>>
    /\ failedBefore = FALSE

Next ==
    \/ onopen
    \/ onerror
    \/ onclose
    \/ onmessage
    \/ send
    \/ send_binary
    \/ recv_all
    \/ host_closing
    \/ drop
    \/ native_drop
    \/ native_arrive
    \/ native_send
    \/ native_send_binary
    \/ native_recv_all
    \/ native_read
    \/ err_would_block
    \/ match_text
    \/ match_binary
    \/ match_ping
    \/ match_ping_unwrap_panics
    \/ match_close
    \/ match_other
    \/ err_other

Spec == Init /\ [][Next]_vars

\* ================================================================ properties
\* What the transport is to receive for a submitted message: a string for
\* Text, an ArrayBuffer of the same bytes for Binary.
ExpectedValue(msg) ==
    IF msg.tag = "Text" THEN JsString(msg.data) ELSE JsArrayBuffer(msg.data)

\* What the caller is to receive for an arrived message event.
ExpectedMessage(m) ==
    IF m.kind = "ArrayBuffer" THEN Binary(m.data) ELSE Text(m.data)

\* What the caller is to receive for a text or binary frame (native).
Decoded(f) == IF f.kind = "Text" THEN Text(f.data) ELSE Binary(f.data)

Count(v, s) == Cardinality({i \in 1..Len(s) : s[i] = v})
LastOf(s) == s[Len(s)]
MsgOf(c) == c.msg

\* The send/send_binary calls made while the socket was CONNECTING / OPEN.
CallsIn(rs) == SelectSeq(sendLog, LAMBDA c : c.readyState = rs)
PreOpenValues == Map(ExpectedValue, Map(MsgOf, CallsIn(CONNECTING)))
OpenValues == Map(ExpectedValue, Map(MsgOf, CallsIn(OPEN)))

\* C1: (wasm32) the messages the open callback hands to the transport are
\* exactly the messages of the send/send_binary calls made before open, in
\* the order of the calls, text and binary interleaved as submitted.
C1_FlushInCallOrder ==
    (target_arch = "wasm32" /\ flushes # <<>>) => flushes[1] = PreOpenValues

C1_Witness ==
    /\ target_arch = "wasm32"
    /\ Len(flushes) = 1
    /\ Len(flushes[1]) = 2
    /\ flushes[1][1].kind = "ArrayBuffer"
    /\ flushes[1][2].kind = "string"
    /\ socket_sent = flushes[1]

\* C2: (wasm32) every message submitted before open is handed to the
\* transport exactly once when the open event is processed, neither
\* duplicated nor dropped later; the queue is flushed at most once and is
\* empty right after the flush.
C2_FlushedExactlyOnce ==
    /\ [](target_arch = "wasm32" =>
            /\ Len(flushes) <= 1
            /\ flushes = <<>> => socket_sent = <<>>
            /\ flushes # <<>> =>
                 \A v \in JsData :
                    /\ Count(v, flushes[1]) = Count(v, PreOpenValues)
                    /\ Count(v, socket_sent) =
                          Count(v, PreOpenValues) + Count(v, OpenValues))
    /\ [][(target_arch = "wasm32" /\ flushes' # flushes) =>
             (flushes = <<>> /\ queued' = <<>>)]_vars

C2_Witness ==
    /\ target_arch = "wasm32"
    /\ flushes = <<<<JsString(<<104, 105>>)>>>>
    /\ socket_sent = <<JsString(<<104, 105>>)>>
    /\ queued = <<>>
    /\ Len(sendLog) = 1

\* C3: (wasm32) a send or send_binary call made while the socket is not yet
\* open returns success, appends exactly its message to the tail of the
\* pending queue and hands nothing to the transport; a call made while the
\* socket is open hands the message to the transport and leaves the queue
\* unchanged.
C3_SendQueuesOrDelivers ==
    [][(target_arch = "wasm32" /\ sendLog' # sendLog) =>
         /\ readyState = CONNECTING =>
               /\ last'.status = "Ok"
               /\ queued' = Append(queued, LastOf(sendLog').msg)
               /\ socket_sent' = socket_sent
         /\ readyState = OPEN =>
               /\ last'.status = "Ok"
               /\ socket_sent' =
                     Append(socket_sent, ExpectedValue(LastOf(sendLog').msg))
               /\ queued' = queued]_vars

C3_Witness ==
    /\ target_arch = "wasm32"
    /\ Len(sendLog) = 2
    /\ sendLog[1].readyState = CONNECTING
    /\ sendLog[2].readyState = OPEN
    /\ sendLog[1].msg.tag = "Text"
    /\ sendLog[2].msg.tag = "Binary"
    /\ last = Ok("send_binary", <<>>)
    /\ Len(socket_sent) = 2

\* C4: (wasm32) once `disconnected` or `error` is true no step clears it,
\* and every recv_all call made after onerror or onclose has run fails,
\* whatever the inbound buffer holds.
C4_TerminalIsSticky ==
    [][target_arch = "wasm32" =>
         /\ disconnected => disconnected'
         /\ error => error'
         /\ (nrecv' # nrecv /\ terminalSeen) =>
               (last' = Err("recv_all") /\ received' = received)]_vars

C4_Witness ==
    /\ target_arch = "wasm32"
    /\ error
    /\ ~disconnected
    /\ nrecv = 2
    /\ last = Err("recv_all")
    /\ Len(received) = 2

\* C5: (native) after one recv_all call has failed for a close frame or a
\* read failure, every later recv_all call on the handle fails too.
C5_NativeFailureIsSticky ==
    (target_arch = "native" /\ failedBefore /\ last.op = "recv_all")
        => last.status = "Err"

\* The inbound buffer of either backend.
Inbound == IF target_arch = "wasm32" THEN received ELSE wire

\* C6: after a recv_all call has returned successfully the inbound buffer
\* is empty until a message arrives, and a recv_all call that ends with no
\* arrival and no terminal event since then returns success with the empty
\* sequence.
C6_SecondDrainIsEmpty ==
    /\ [](quiet => Inbound = <<>>)
    /\ [][(nrecv' # nrecv /\ quiet) => last' = Ok("recv_all", <<>>)]_vars

C6_WitnessWasm ==
    /\ target_arch = "wasm32"
    /\ quiet
    /\ nrecv = 2
    /\ returnedLog # <<>>
    /\ last = Ok("recv_all", <<>>)

\* C7: (wasm32) while no terminal flag is set recv_all succeeds and returns
\* exactly the messages that arrived since the previous successful
\* recv_all, in arrival order, each with its tag and payload.
C7_ReturnsArrivalsInOrder ==
    [][(target_arch = "wasm32" /\ nrecv' # nrecv) =>
         IF disconnected \/ error
         THEN last'.status = "Err"
         ELSE last' = Ok("recv_all", Map(ExpectedMessage, unread))]_vars

C7_Witness ==
    /\ target_arch = "wasm32"
    /\ arrivedLog = <<JsArrayBuffer(<<1, 2, 3>>), JsString(<<104, 105>>)>>
    /\ last = Ok("recv_all", <<Binary(<<1, 2, 3>>), Text(<<104, 105>>)>>)

\* C8: (wasm32) under every interleaving of onmessage with recv_all every
\* arrived message is, whole, in exactly one place: in the result of one
\* recv_all call or still in the inbound buffer; none is split, duplicated
\* or lost.
C8_ArrivalsConserved ==
    target_arch = "wasm32" =>
        Map(ExpectedMessage, arrivedLog) = returnedLog \o received

C8_Witness ==
    /\ target_arch = "wasm32"
    /\ ~terminalSeen
    /\ nrecv = 1
    /\ Len(returnedLog) = 1
    /\ Len(received) = 1
    /\ Len(arrivedLog) = 2

\* The ping frames among the frames read, and the pong frames written.
Pings(frames) == SelectSeq(frames, LAMBDA f : f.kind = "Ping")
Pongs(frames) == SelectSeq(frames, LAMBDA f : f.kind = "Pong")
DataOf(f) == f.data
PongFrame(p) == Frame("Pong", p.data)
ReadData(frames) ==
    SelectSeq(frames, LAMBDA f : f.kind \in {"Text", "Binary"})

C10_WouldBlockEndsWithSuccess ==
    /\ [][(target_arch = "native" /\ pc = "loop" /\ wire = <<>>
             /\ pc' # pc) =>
            /\ pc' = "idle"
            /\ nrecv' = nrecv + 1
            /\ last' = Ok("recv_all", Map(Decoded, ReadData(readLog)))]_vars
    /\ []((target_arch = "native" /\ pc = "idle"
             /\ last = Err("recv_all")) =>
            (readLog # <<>>
               /\ LastOf(readLog).kind \in {"Close", "IoError"}))

C10_Witness ==
    /\ target_arch = "native"
    /\ pc = "idle"
    /\ nrecv = 2
    /\ returnedLog = <<Text(<<104, 105>>), Binary(<<1, 2, 3>>)>>
    /\ last = Ok("recv_all", <<>>)

C12_ClosedOnceOnDrop ==
    /\ [](close_calls = IF alive THEN 0 ELSE 1)
    /\ []((target_arch = "wasm32" /\ alive) => ENABLED drop)
    /\ []((target_arch = "native" /\ alive /\ pc \in {"idle", "panicked"})
            => ENABLED native_drop)
    /\ [][/\ close_calls' # close_calls => (alive /\ ~alive')
          /\ (alive /\ ~alive') => close_calls' = close_calls + 1
          /\ ~alive => ~alive'
          /\ (alive /\ ~alive' /\ target_arch = "wasm32"
                /\ readyState = CLOSED) =>
                UNCHANGED <<readyState, queued, received, disconnected,
                            error, socket_sent, histVars>>]_vars

C12_Witness ==
    /\ target_arch = "wasm32"
    /\ ~alive
    /\ close_calls = 1
    /\ readyState = CLOSED
    /\ disconnected
    /\ error
    /\ sendLog # <<>>
    /\ LastOf(sendLog).readyState = CLOSED

\* C13: (wasm32) the pending queue receives messages only before open: in
\* every state after the open-time flush it is empty, also after send or
\* send_binary calls made once the socket is CLOSING or CLOSED.
C13_QueueUnusedAfterOpen ==
    (target_arch = "wasm32" /\ flushes # <<>>) => queued = <<>>

\* C14: (wasm32) every message submitted before open reaches the transport
\* before any message submitted while open: once a call has been made on
\* the open socket, the transport has received the pre-open messages first,
\* then the messages of the calls made while open, each group in call order.
C14_PreOpenBeforePostOpen ==
    (target_arch = "wasm32" /\ CallsIn(OPEN) # <<>>) =>
        socket_sent = PreOpenValues \o OpenValues

C14_Witness ==
    /\ target_arch = "wasm32"
    /\ Len(sendLog) = 2
    /\ sendLog[1].readyState = CONNECTING
    /\ sendLog[2].readyState = OPEN
    /\ sendLog[1].msg = Binary(<<1, 2, 3>>)
    /\ sendLog[2].msg = Text(<<104, 105>>)
    /\ socket_sent = <<JsArrayBuffer(<<1, 2, 3>>), JsString(<<104, 105>>)>>

\* C15: (native) a frame that is not text, binary, ping or close (a pong)
\* never aborts recv_all: the call that reads it goes on or returns a value.
C15_UnsupportedFrameNeverAborts ==
    (target_arch = "native" /\ readLog # <<>>
       /\ LastOf(readLog).kind \notin {"Text", "Binary", "Ping", "Close",
                                       "IoError"})
        => (pc # "panicked" /\ last # Panic("recv_all"))

\* C16: (wasm32) as long as the open event has not occurred (the socket is
\* still connecting, or has errored or closed without opening) nothing has
\* been handed to the transport, every message submitted so far is in the
\* pending queue in call order, and every send/send_binary call returned
\* success.
C16_NeverOpenedKeepsQueue ==
    (target_arch = "wasm32" /\ flushes = <<>>) =>
        /\ socket_sent = <<>>
        /\ queued = Map(MsgOf, sendLog)
        /\ last.op \in {"send", "send_binary"} => last.status = "Ok"
        /\ readyState # OPEN

C16_Witness ==
    /\ target_arch = "wasm32"
    /\ flushes = <<>>
    /\ readyState = CLOSED
    /\ error
    /\ disconnected
    /\ Len(queued) = 2
    /\ sendLog[1].readyState = CONNECTING
    /\ sendLog[2].readyState = CLOSED
    /\ last = Ok("send", <<>>)

\* One step of the native recv_all loop: a read or a match arm.
LoopStep ==
    \/ native_read
    \/ err_would_block
    \/ match_text
    \/ match_binary
    \/ match_ping
    \/ match_ping_unwrap_panics
    \/ match_close
    \/ match_other
    \/ err_other

InCall == pc \in {"loop", "match"}

\* What bounds the steps left in a native recv_all call when nothing more
\* arrives: two per ready frame (its read and its arm), one less once the
\* frame at hand has been read.
Rank == 2 * Len(wire) + (IF pc = "match" THEN 1 ELSE 0)

\* The part of C17 on waiting and on the number of reads: (native) every
\* read takes one ready frame or is the would-block read that ends the
\* call, a call in progress can always take its next step, and every step
\* taken while nothing arrives ends the call or lowers Rank; (wasm32)
\* recv_all is one step that touches neither the socket nor the transport.
C17_NeverWaits ==
    /\ [](target_arch = "native" =>
            /\ Len(allRead) + Len(wire) = Len(arrivedLog)
            /\ Len(readLog) <= Len(arrivedLog)
            /\ InCall => ENABLED LoopStep)
    /\ [][(target_arch = "native" /\ InCall /\ arrivedLog' = arrivedLog) =>
             (~InCall' \/ Rank' < Rank)]_vars
    /\ [][(target_arch = "wasm32" /\ nrecv' # nrecv) =>
             /\ nrecv' = nrecv + 1
             /\ last'.op = "recv_all"
             /\ UNCHANGED <<readyState, socket_sent, arrivedLog, queued>>]_vars

\* C17: recv_all never waits (C17_NeverWaits), and every native recv_all call
\* ends with success, at the would-block read, or with an error, at a close
\* frame or a read failure.
C17_TerminatesWithValue ==
    /\ C17_NeverWaits
    /\ []((target_arch = "native" /\ last.op = "recv_all") =>
            last.status \in {"Ok", "Err"})

\* C18: (native) when recv_all returns an error, the text and binary
\* messages it had decoded in that call are returned to nobody: the error
\* result carries none, and a later successful call returns only what that
\* later call has read itself.
C18_DecodedBeforeErrorAreLost ==
    [][(target_arch = "native" /\ nrecv' # nrecv) =>
         /\ last'.status = "Err" =>
               (last'.val = <<>> /\ returnedLog' = returnedLog)
         /\ last'.status = "Ok" =>
               /\ last'.val = Map(Decoded, ReadData(readLog))
               /\ returnedLog' = returnedLog \o last'.val]_vars

C18_Witness ==
    /\ target_arch = "native"
    /\ allRead = <<Frame("Text", <<104, 105>>), Frame("Close", <<>>)>>
    /\ failedBefore
    /\ nrecv = 2
    /\ last = Ok("recv_all", <<>>)
    /\ returnedLog = <<>>

\* The calls made while the socket was CLOSING or CLOSED.
ClosedCalls ==
    SelectSeq(sendLog, LAMBDA c : c.readyState \in {CLOSING, CLOSED})

\* C19: (wasm32) send and send_binary return success in every state they
\* are called in, flags set and socket closing or closed included, and
\* change neither flag nor the inbound buffer; a message accepted while the
\* socket is closing or closed is never handed to the transport: it stays
\* in the pending queue.
C19_SendAlwaysSucceeds ==
    /\ [][(target_arch = "wasm32" /\ sendLog' # sendLog) =>
            /\ last'.status = "Ok"
            /\ last'.op \in {"send", "send_binary"}
            /\ UNCHANGED <<disconnected, error, received>>]_vars
    /\ [](target_arch = "wasm32" =>
            /\ Len(socket_sent) + Len(queued) = Len(sendLog)
            /\ Len(queued) >= Len(ClosedCalls)
            /\ \A i \in 1..Len(ClosedCalls) :
                  queued[Len(queued) - Len(ClosedCalls) + i] =
                      ClosedCalls[i].msg)

C19_Witness ==
    /\ target_arch = "wasm32"
    /\ error
    /\ disconnected
    /\ flushes # <<>>
    /\ Len(sendLog) = 2
    /\ sendLog[1].readyState = CLOSING
    /\ sendLog[2].readyState = CLOSED
    /\ last = Ok("send", <<>>)
    /\ socket_sent = <<>>
    /\ Len(queued) = 2
    /\ received # <<>>

====
